---- MODULE Spec2Model ----
(***************************************************************************)
(* Model of models/marts/customer_segments_python.py: model(dbt, session). *)
(*                                                                         *)
(* One invocation of model() is a straight-line program over one pandas    *)
(* table; pc records the statement that runs next.  The table is           *)
(* standardized (StandardScaler), clustered (KMeans(n_clusters=min(4,n),   *)
(* random_state=42).fit_predict: k-means++ seeding, Lloyd iterations, a    *)
(* final E-step), scored (kmeans.transform, np.min) and assembled into the *)
(* result frame.  A second invocation on the same table follows the first, *)
(* so that the outputs of two runs can be compared.                        *)
(*                                                                         *)
(* Arithmetic is exact.  A standardized value (x - mean) / std is kept as  *)
(* the integer n*x - sum(x) divided by the gcd of its column, whose unit   *)
(* is sqrt(n / S) with S the sum of the squares of these integers over the *)
(* column; a centroid, the mean of at most n such points, is kept in       *)
(* units of 1 / lcm(1..n).  A squared distance is then x2 / S1 + y2 / S2   *)
(* (times n / lcm^2) with x2 and y2 integers, and two of them are compared *)
(* by comparing two fractions, without forming products beyond 32 bits.    *)
(***************************************************************************)
EXTENDS Integers, Sequences, FiniteSets, TLC

\* ------------------------------------------------------------------ bounds
\* Largest number of customers in the upstream table.
MaxN == 5
\* Largest number of rows of a table that repeat the profile of another row.
MaxDup == 1
\* Largest number of customers of a table on which model() is run twice.
MaxNTwice == 4
\* Iteration cap of the Lloyd loop (KMeans max_iter; 300 in the library).
MaxIter == 2

\* ------------------------------------------------------- program constants
\* min(4, len(features))
NClustersCap == 4
\* KMeans tol = 1e-4 = 1 / TolDen
TolDen == 10000
\* A missing value (NaN) of a numeric column; real values are non-negative.
NaN == -1
\* labels before the first iteration: np.full(n, -1)
NoLabel == -1

\* segment_map keyed from 1 instead of 0
segment_map_from_one(seg) ==
  CASE seg = 1 -> "Low Value"
    [] seg = 2 -> "Medium Value"
    [] seg = 3 -> "High Value"
    [] seg = 4 -> "VIP"
    [] OTHER -> "Segment_n"

\* segment_map, and the fallback f'Segment_{seg}'
segment_map(seg) ==
  CASE seg = 0 -> "Low Value"
    [] seg = 1 -> "Medium Value"
    [] seg = 2 -> "High Value"
    [] seg = 3 -> "VIP"
    [] OTHER -> "Segment_n"

\* The columns model() reads from the upstream table, as it spells them.
FeatureColumns == {"count_lifetime_orders", "lifetime_spend"}
IdColumn == "customer_id"
\* The columns of the frame returned for an empty table.
EmptyResultColumns == <<"customer_id", "segment", "segment_score">>
\* The columns of the frame returned for a non-empty table.
ResultColumns == <<"customer_id", "segment", "segment_score", "cluster_id">>

\* ------------------------------------------------------ exact arithmetic
Abs(x) == IF x < 0 THEN -x ELSE x
Min(a, b) == IF a < b THEN a ELSE b

RECURSIVE Gcd(_, _)
Gcd(a, b) == IF b = 0 THEN a ELSE Gcd(b, a % b)
Lcm(a, b) == (a \div Gcd(a, b)) * b
RECURSIVE LcmUpTo(_)
LcmUpTo(n) == IF n <= 1 THEN 1 ELSE Lcm(LcmUpTo(n - 1), n)

RECURSIVE SumSeq(_)
SumSeq(s) == IF s = <<>> THEN 0 ELSE Head(s) + SumSeq(Tail(s))
RECURSIVE GcdSeq(_)
GcdSeq(s) == IF s = <<>> THEN 0 ELSE Gcd(Abs(Head(s)), GcdSeq(Tail(s)))

RECURSIVE SumOver(_, _)
SumOver(f, S) ==
  IF S = {} THEN 0
  ELSE LET x == CHOOSE y \in S : TRUE IN f[x] + SumOver(f, S \ {x})

RECURSIVE FracLess(_, _, _, _)
\* a / b < c / d, for a, c >= 0 and b, d > 0, by continued fractions
FracLess(a, b, c, d) ==
  IF a \div b # c \div d THEN a \div b < c \div d
  ELSE IF c % d = 0 THEN FALSE
  ELSE IF a % b = 0 THEN TRUE
  ELSE FracLess(d, c % d, b, a % b)

\* u * a < v * b, for a, b > 0
ProdLess(u, a, v, b) ==
  IF u <= 0 /\ v >= 0 THEN u < 0 \/ v > 0
  ELSE IF u >= 0 /\ v <= 0 THEN FALSE
  ELSE IF u > 0 THEN FracLess(u, b, v, a)
  ELSE FracLess(-v, a, -u, b)

\* ------------------------------------------------------------ the input
\* The customers the bounded tables are drawn from, as
\* <<count_lifetime_orders, lifetime_spend>>.
Profiles == {<<NaN, NaN>>, <<1, NaN>>, <<9, 2>>, <<10, 2>>, <<20, 4>>}

\* The spec's concrete scenario.
ScenarioFeatures == <<(<<1, 10>>), (<<2, 20>>), (<<50, 5000>>), (<<55, 5500>>)>>

\* A table of the given feature rows; customer_id is unique and is not the
\* row number.
TableOf(fs) ==
  [i \in 1..Len(fs) |->
     [customer_id |-> 100 + Len(fs) - i,
      count_lifetime_orders |-> fs[i][1],
      lifetime_spend |-> fs[i][2]]]

\* The profiles in an order, to bound the tables: the rows of a table are
\* ordered by profile, ascending or descending.
Order(p) == 100 * (p[1] + 1) + (p[2] + 1)
Ordered(fs) ==
  \/ \A i \in 1..(Len(fs) - 1) : Order(fs[i]) <= Order(fs[i + 1])
  \/ \A i \in 1..(Len(fs) - 1) : Order(fs[i]) >= Order(fs[i + 1])
Tables ==
  {TableOf(fs) : fs \in {f \in UNION {[1..n -> Profiles] : n \in 0..MaxN} :
                            /\ Ordered(f)
                            /\ Len(f) - Cardinality({f[i] : i \in 1..Len(f)}) <= MaxDup}}
    \cup {TableOf(ScenarioFeatures)}
TinyTables == {t \in Tables : Len(t) <= 1}

Required == FeatureColumns \cup {IdColumn}
Upper(name) ==
  CASE name = "customer_id" -> "CUSTOMER_ID"
    [] name = "count_lifetime_orders" -> "COUNT_LIFETIME_ORDERS"
    [] name = "lifetime_spend" -> "LIFETIME_SPEND"
\* Column sets in which each required column is spelled as the code spells
\* it, in upper case, or is absent.
ColumnSets ==
  {c \in SUBSET (Required \cup {Upper(x) : x \in Required}) :
     \A x \in Required : ~(x \in c /\ Upper(x) \in c)}

\* dbt.ref("customers").to_pandas()
Upstream ==
  {[columns |-> Required, rows |-> t] : t \in Tables}
    \cup {[columns |-> c, rows |-> t] : c \in ColumnSets, t \in TinyTables}

\* ------------------------------------------------------------- the state
VARIABLES
  customers_df,        \* the upstream table: [columns, rows]
  pc,                  \* the statement of model() that runs next
  run,                 \* 1: first invocation, 2: second, on the same table
  features,            \* customers_df[[...]].fillna(0)
  scaler,              \* StandardScaler: <<S1, S2>>, the columns' sums of squares
  scaled_features,     \* scaler.fit_transform(features), exact numerators
  n_clusters,
  centers,             \* kmeans.cluster_centers_, cluster c at centers[c + 1]
  labels,              \* labels of the Lloyd loop
  labels_old,
  n_iter,
  stopped,             \* "": looping; "strict", "tol", "cap": why it ended
  segments,            \* kmeans.fit_predict(...)
  segment_scores,      \* exact squared distance d2 of the score 1/(1+sqrt(d2))
  result_df,           \* the returned frame, or NoFrame
  raised,              \* the exception model() raised, or ""
  stream,              \* what RandomState(42) draws, as revealed by the first run
  argpartition,        \* what np.argpartition has returned: {[arg, far]}
  drawn,               \* selections consumed in this run
  first_run            \* [result_df, raised] of the first invocation

vars == <<customers_df, pc, run, features, scaler, scaled_features,
          n_clusters, centers, labels, labels_old, n_iter, stopped,
          segments, segment_scores, result_df, raised, stream, argpartition,
          drawn, first_run>>

NoFrame == [columns |-> <<>>, rows |-> <<>>, returned |-> FALSE]
Frame(cols, rows) == [columns |-> cols, rows |-> rows, returned |-> TRUE]

\* The local variables of model() before its first statement.
Fresh ==
  /\ features = <<>>
  /\ scaler = <<>>
  /\ scaled_features = <<>>
  /\ n_clusters = 0
  /\ centers = <<>>
  /\ labels = <<>>
  /\ labels_old = <<>>
  /\ n_iter = 0
  /\ stopped = ""
  /\ segments = <<>>
  /\ segment_scores = <<>>
  /\ result_df = NoFrame
  /\ raised = ""
  /\ drawn = 0

Init ==
  /\ customers_df \in Upstream
  /\ pc = "select"
  /\ run = 1
  /\ Fresh
  /\ stream = <<>>
  /\ argpartition = {}
  /\ first_run = [result_df |-> NoFrame, raised |-> ""]

N == Len(customers_df.rows)

\* ------------------------------------------------- feature preparation
fillna(v) == IF v = NaN THEN 0 ELSE v

\* customers_df[['count_lifetime_orders', 'lifetime_spend']].fillna(0);
\* a column that is not in the frame raises KeyError.
SelectFeatures ==
  /\ pc = "select"
  /\ IF FeatureColumns \subseteq customers_df.columns
     THEN /\ features' = [i \in 1..N |->
                 <<fillna(customers_df.rows[i].count_lifetime_orders),
                   fillna(customers_df.rows[i].lifetime_spend)>>]
          /\ pc' = "empty"
          /\ UNCHANGED raised
     ELSE /\ raised' = "KeyError"
          /\ pc' = "raised"
          /\ UNCHANGED features
  /\ UNCHANGED <<customers_df, run, scaler, scaled_features, n_clusters,
                 centers, labels, labels_old, n_iter, stopped, segments,
                 segment_scores, result_df, stream, argpartition, drawn, first_run>>

\* if len(features) == 0: return pd.DataFrame(columns=[...])
CheckEmpty ==
  /\ pc = "empty"
  /\ IF Len(features) = 0
     THEN /\ result_df' = Frame(EmptyResultColumns, <<>>)
          /\ pc' = "done"
     ELSE /\ pc' = "scale"
          /\ UNCHANGED result_df
  /\ UNCHANGED <<customers_df, run, features, scaler, scaled_features,
                 n_clusters, centers, labels, labels_old, n_iter, stopped,
                 segments, segment_scores, raised, stream, argpartition, drawn, first_run>>

\* StandardScaler.fit_transform: (x - mean) / std per column, as the integer
\* (n*x - sum(x)) / g in units of sqrt(n / S), with g the gcd of the column
\* and S the column's sum of squares.
Centered(j) ==
  LET col == [i \in 1..Len(features) |-> features[i][j]]
      raw == [i \in 1..Len(features) |-> Len(features) * col[i] - SumSeq(col)]
      g == GcdSeq(raw)
  IN [i \in 1..Len(features) |-> IF g = 0 THEN 0 ELSE raw[i] \div g]
SumSq(c) == SumSeq([i \in 1..Len(c) |-> c[i] * c[i]])
\* A column of zero variance is divided by 1 (sklearn's _handle_zeros_in_scale):
\* its standardized values are all 0.
HandleZeros(S) == IF S = 0 THEN 1 ELSE S

\* n_clusters = 4, whatever the number of rows
NClustersFixed(n) == NClustersCap

NClusters(n) == Min(NClustersCap, n)

Scale ==
  /\ pc = "scale"
  /\ scaled_features' =
       [i \in 1..Len(features) |-> <<Centered(1)[i], Centered(2)[i]>>]
  /\ scaler' = <<HandleZeros(SumSq(Centered(1))), HandleZeros(SumSq(Centered(2)))>>
  /\ n_clusters' = NClusters(Len(features))
  /\ pc' = "init"
  /\ UNCHANGED <<customers_df, run, features, centers, labels, labels_old,
                 n_iter, stopped, segments, segment_scores, result_df,
                 raised, stream, argpartition, drawn, first_run>>

\* ------------------------------------------------------------ distances
\* Centroid coordinates are in units of 1 / L of a standardized numerator.
L == LcmUpTo(Len(scaled_features))
\* A row as a centroid.
AsCenter(i) == <<L * scaled_features[i][1], L * scaled_features[i][2]>>

\* The squared Euclidean distance, in standardized space, between two
\* centroids: n * (x2 / scaler[1] + y2 / scaler[2]) / L^2.
CenterDist2(c, d) ==
  [x2 |-> (c[1] - d[1]) * (c[1] - d[1]), y2 |-> (c[2] - d[2]) * (c[2] - d[2])]
\* ... between row i and centroid c
Dist2(i, c) == CenterDist2(AsCenter(i), c)

DistLess(p, q) == ProdLess(p.x2 - q.x2, scaler[2], q.y2 - p.y2, scaler[1])
DistEq(p, q) == ~DistLess(p, q) /\ ~DistLess(q, p)
IsZero(p) == p.x2 = 0 /\ p.y2 = 0

\* argmin over the centroids of the distance from row i: the first of the
\* nearest ones, as a 0-based cluster index.
Nearest(i, cs) ==
  LET d == [c \in 1..Len(cs) |-> Dist2(i, cs[c])]
  IN (CHOOSE c \in 1..Len(cs) :
        /\ \A e \in 1..Len(cs) : ~DistLess(d[e], d[c])
        /\ \A e \in 1..(c - 1) : DistLess(d[c], d[e])) - 1

\* The E-step: every row's nearest centroid.
EStep(cs) == [i \in 1..Len(scaled_features) |-> Nearest(i, cs)]

\* --------------------------------------------------- the seeded draws
\* RandomState(42) is created anew by every fit: what it draws is fixed, but
\* not known to the model.  The first run reveals the draws one by one; the
\* second run, on the same table, meets the same ones.
\* random_state=None: every fit draws afresh
Unseeded(x) ==
  /\ stream' = Append(stream, x)
  /\ drawn' = drawn + 1

Seeded(x) ==
  /\ IF run = 1
     THEN stream' = Append(stream, x)
     ELSE x = stream[drawn + 1] /\ UNCHANGED stream
  /\ drawn' = drawn + 1

\* ------------------------------------------------------------- k-means++
\* Rows with the same features are interchangeable in a selection: they are
\* the same point, get the same label and weigh the same.  Of such rows the
\* model selects the first ones.
FirstOfItsKind(i) == \A j \in 1..(i - 1) : scaled_features[j] # scaled_features[i]

\* The rows a next centroid can be: every row for the first (a uniform
\* draw); then a row drawn with probability proportional to its squared
\* distance to the nearest centroid chosen so far, hence one at a positive
\* distance; and row 1 (searchsorted over a zero cumulative sum) when every
\* row lies on a chosen centroid.
Candidates(cs) ==
  LET far == {i \in 1..Len(scaled_features) :
                \A c \in 1..Len(cs) : ~IsZero(Dist2(i, cs[c]))}
  IN IF cs = <<>> THEN {i \in 1..Len(scaled_features) : FirstOfItsKind(i)}
     ELSE IF far = {} THEN {1} ELSE {i \in far : FirstOfItsKind(i)}

InitCentroid ==
  /\ pc = "init"
  /\ \E i \in Candidates(centers) :
       /\ Seeded(<<i>>)
       /\ centers' = Append(centers, AsCenter(i))
  /\ IF Len(centers) + 1 = n_clusters
     THEN /\ pc' = "lloyd"
          /\ labels' = [i \in 1..Len(scaled_features) |-> NoLabel]
          /\ labels_old' = [i \in 1..Len(scaled_features) |-> NoLabel]
     ELSE UNCHANGED <<pc, labels, labels_old>>
  /\ UNCHANGED <<customers_df, run, features, scaler, scaled_features,
                 n_clusters, n_iter, stopped, segments, segment_scores,
                 result_df, raised, argpartition, first_run>>

\* ---------------------------------------------------------- Lloyd's loop
Range(f) == {f[j] : j \in DOMAIN f}
Clusters == 0..(n_clusters - 1)
Empties(lab) == {c \in Clusters : \A i \in DOMAIN lab : lab[i] # c}

\* The distance of every row to the centroid of its own cluster.
OwnDistances(lab, cs) == [i \in DOMAIN lab |-> Dist2(i, cs[lab[i] + 1])]

\* _relocate_empty_clusters_dense: the rows that are moved to the empty
\* clusters are the len(empty) rows farthest from the centroid of their own
\* cluster, argpartition(distances, -n_empty)[:-n_empty-1:-1]: some ordering
\* of a set of n_empty rows that no other row is farther than.
FarFromCenters(own, r) ==
  {f \in [1..r -> DOMAIN own] :
     /\ \A a, b \in 1..r : a # b => f[a] # f[b]
     /\ \A a \in 1..r : \A j \in 1..(f[a] - 1) :
          scaled_features[j] = scaled_features[f[a]]
            => \E b \in 1..(a - 1) : f[b] = j
     /\ \A q \in Range(f) : \A o \in DOMAIN own \ Range(f) :
          ~DistLess(own[q], own[o])}

\* np.argpartition is a function: which of the rows at equal distances it
\* returns is not known to the model, but the same argument gets the same
\* answer, in this run and in the next.
Partition(own, r, far) ==
  IF r = 0 THEN UNCHANGED argpartition
  ELSE IF \E e \in argpartition : e.arg = <<own, r>>
  THEN far = (CHOOSE e \in argpartition : e.arg = <<own, r>>).far
         /\ UNCHANGED argpartition
  ELSE argpartition' = argpartition \cup {[arg |-> <<own, r>>, far |-> far]}

\* The M-step of lloyd_iter: the j-th empty cluster becomes the row far[j],
\* which leaves the sum and the weight of the cluster it is labelled with;
\* every other centroid is the mean of the rows left to it
\* (_average_centers divides a sum only by a positive weight, so a cluster
\* left without rows keeps the zero sum: the origin).
MStep(lab, far) ==
  [c \in 1..n_clusters |->
     IF (c - 1) \in Empties(lab)
     THEN AsCenter(far[Cardinality({e \in Empties(lab) : e <= c - 1})])
     ELSE LET mem == {i \in DOMAIN lab : lab[i] = c - 1 /\ i \notin Range(far)}
              w == IF mem = {} THEN 1 ELSE Cardinality(mem)
          IN <<(L \div w) * SumOver([i \in mem |-> scaled_features[i][1]], mem),
               (L \div w) * SumOver([i \in mem |-> scaled_features[i][2]], mem)>>]

\* center_shift_tot <= tol, with tol = 1e-4 * mean(var(X, axis=0)) and the
\* variance of a standardized column 1, or 0 when the column is constant.
ShiftWithinTol(old, new) ==
  LET K == 1..Len(old)
      n == Len(scaled_features)
      TA == SumOver([c \in K |-> CenterDist2(old[c], new[c]).x2], K)
      TB == SumOver([c \in K |-> CenterDist2(old[c], new[c]).y2], K)
      nvar == Cardinality({j \in 1..2 :
                 \E i \in DOMAIN scaled_features : scaled_features[i][j] # 0})
  IN \/ TA = 0 /\ TB = 0
     \/ /\ TA <= (nvar * L * L * scaler[1]) \div (2 * TolDen * n)
        /\ TB <= (nvar * L * L * scaler[2]) \div (2 * TolDen * n)
        /\ ~FracLess(nvar * L * L, 2 * TolDen * n,
                     TA * scaler[2] + TB * scaler[1], scaler[1] * scaler[2])

\* One pass of the loop `for i in range(max_iter)` of _kmeans_single_lloyd.
LloydIter ==
  /\ pc = "lloyd"
  /\ n_iter < MaxIter
  /\ LET lab == EStep(centers)
         own == OwnDistances(lab, centers)
         r == Cardinality(Empties(lab))
     IN /\ \E far \in FarFromCenters(own, r) :
             /\ Partition(own, r, far)
             /\ centers' = MStep(lab, far)
        /\ labels' = lab
        /\ n_iter' = n_iter + 1
        /\ IF lab = labels_old
           THEN stopped' = "strict" /\ UNCHANGED labels_old
           ELSE IF ShiftWithinTol(centers, centers')
           THEN stopped' = "tol" /\ UNCHANGED labels_old
           ELSE /\ labels_old' = lab
                /\ stopped' = IF n_iter + 1 = MaxIter THEN "cap" ELSE ""
        /\ pc' = IF stopped' = "" THEN "lloyd" ELSE "predict"
  /\ UNCHANGED <<customers_df, run, features, scaler, scaled_features,
                 n_clusters, segments, segment_scores, result_df, raised,
                 stream, drawn, first_run>>

\* The labels of the last pass of the loop, without the final E-step
LoopLabels(why, lab, cs) == lab

\* After the loop: `if not strict_convergence:` the E-step is run once more,
\* so that the labels match the final centroids.
FinalLabels(why, lab, cs) == IF why = "strict" THEN lab ELSE EStep(cs)

\* segments = kmeans.fit_predict(scaled_features)
FitPredict ==
  /\ pc = "predict"
  /\ segments' = FinalLabels(stopped, labels, centers)
  /\ pc' = "transform"
  /\ UNCHANGED <<customers_df, run, features, scaler, scaled_features,
                 n_clusters, centers, labels, labels_old, n_iter, stopped,
                 segment_scores, result_df, raised, stream, argpartition, drawn, first_run>>

\* kmeans.transform(scaled_features)[i, 0]: the first column, not the minimum
DistanceToFirst(i) == Dist2(i, centers[1])

\* np.min(kmeans.transform(scaled_features), axis=1)[i], squared: the score
\* of row i is 1 / (1 + sqrt(MinDistance2(i))).
MinDistance2(i) == Dist2(i, centers[Nearest(i, centers) + 1])

Transform ==
  /\ pc = "transform"
  /\ segment_scores' = [i \in 1..Len(scaled_features) |-> MinDistance2(i)]
  /\ pc' = "result"
  /\ UNCHANGED <<customers_df, run, features, scaler, scaled_features,
                 n_clusters, centers, labels, labels_old, n_iter, stopped,
                 segments, result_df, raised, stream, argpartition, drawn, first_run>>

\* the result sorted by customer_id, while the other columns keep their order
ResultRowsSorted(ids, segs, scores) ==
  [i \in 1..Len(ids) |->
     [customer_id |-> CHOOSE x \in {ids[j] : j \in 1..Len(ids)} :
                        Cardinality({j \in 1..Len(ids) : ids[j] <= x}) = i,
      segment |-> segment_map(segs[i]),
      segment_score |-> scores[i],
      cluster_id |-> segs[i]]]

\* pd.DataFrame({'customer_id': ..., 'segment': ..., 'segment_score': ...,
\* 'cluster_id': ...}): one row per row of customers_df, in its order.
ResultRows(ids, segs, scores) ==
  [i \in 1..Len(ids) |->
     [customer_id |-> ids[i],
      segment |-> segment_map(segs[i]),
      segment_score |-> scores[i],
      cluster_id |-> segs[i]]]

\* customers_df['customer_id'] raises KeyError when the column is absent.
BuildResult ==
  /\ pc = "result"
  /\ IF IdColumn \in customers_df.columns
     THEN /\ result_df' =
               Frame(ResultColumns,
                     ResultRows([i \in 1..N |-> customers_df.rows[i].customer_id],
                                segments, segment_scores))
          /\ pc' = "done"
          /\ UNCHANGED raised
     ELSE /\ raised' = "KeyError"
          /\ pc' = "raised"
          /\ UNCHANGED result_df
  /\ UNCHANGED <<customers_df, run, features, scaler, scaled_features,
                 n_clusters, centers, labels, labels_old, n_iter, stopped,
                 segments, segment_scores, stream, argpartition, drawn, first_run>>

\* model() is invoked again on the same upstream table; its locals are new.
Rerun ==
  /\ pc \in {"done", "raised"}
  /\ run = 1
  /\ first_run' = [result_df |-> result_df, raised |-> raised]
  /\ run' = 2
  /\ pc' = "select"
  /\ features' = <<>>
  /\ scaler' = <<>>
  /\ scaled_features' = <<>>
  /\ n_clusters' = 0
  /\ centers' = <<>>
  /\ labels' = <<>>
  /\ labels_old' = <<>>
  /\ n_iter' = 0
  /\ stopped' = ""
  /\ segments' = <<>>
  /\ segment_scores' = <<>>
  /\ result_df' = NoFrame
  /\ raised' = ""
  /\ drawn' = 0
  /\ UNCHANGED <<customers_df, stream, argpartition>>

\* One invocation of model().
Next ==
  \/ SelectFeatures
  \/ CheckEmpty
  \/ Scale
  \/ InitCentroid
  \/ LloydIter
  \/ FitPredict
  \/ Transform
  \/ BuildResult

Spec == Init /\ [][Next]_vars

\* Two invocations in a row on the same table, of at most MaxNTwice rows.
InitTwice == Init /\ Len(customers_df.rows) <= MaxNTwice
NextTwice == Next \/ Rerun
SpecTwice == InitTwice /\ [][NextTwice]_vars

\* ------------------------------------------------------------ the claims
Rows == result_df.rows
Ended == pc \in {"done", "raised"}
Segmented == pc = "done" /\ N > 0

\* The rank of a label in Low Value < Medium Value < High Value < VIP.
LabelRank(label) ==
  CASE label = "Low Value" -> 1
    [] label = "Medium Value" -> 2
    [] label = "High Value" -> 3
    [] label = "VIP" -> 4
    [] OTHER -> 0

\* The value of a centroid is the sum of its two standardized features,
\* c[1] * sqrt(n / scaler[1]) + c[2] * sqrt(n / scaler[2]) (over L):
\* value(c) < value(d).
ValueLess(c, d) ==
  LET P == c[1] - d[1]
      Q == d[2] - c[2]
  IN IF P <= 0 /\ Q >= 0 THEN P < 0 \/ Q > 0
     ELSE IF P >= 0 /\ Q <= 0 THEN FALSE
     ELSE IF P > 0 THEN ProdLess(P * P, scaler[2], Q * Q, scaler[1])
     ELSE ProdLess(Q * Q, scaler[1], P * P, scaler[2])

\* A required column is present under some letter case.
Present(x) == x \in customers_df.columns \/ Upper(x) \in customers_df.columns

\* C1: a table with unique customer_id values and the columns model() reads
\* is never rejected, and the returned frame has one row per input row, with
\* the input's customer_id values in the input's row order.
C1_OneRowPerCustomer ==
  /\ Required \subseteq customers_df.columns => pc # "raised"
  /\ pc = "done" =>
       /\ Len(Rows) = N
       /\ \A i \in 1..N : Rows[i].customer_id = customers_df.rows[i].customer_id
C1_Witness ==
  /\ pc = "done"
  /\ N >= 3
  /\ Len(Rows) = N
  /\ \A i, j \in 1..N : i # j => Rows[i].customer_id # Rows[j].customer_id

\* C2: labels follow the rank of the cluster: of two customers, the one whose
\* cluster has the lower centroid value never gets the higher-value label.
C2_LabelsFollowRank ==
  Segmented =>
    \A i, j \in 1..N :
      ValueLess(centers[segments[i] + 1], centers[segments[j] + 1])
        => LabelRank(Rows[i].segment) <= LabelRank(Rows[j].segment)

\* C3: the second run on the same table ends as the first did: the same
\* frame (labels, cluster_id, scores), or the same exception.
C3_SameOutputTwice ==
  run = 2 /\ Ended =>
    /\ result_df = first_run.result_df
    /\ raised = first_run.raised
C3_Witness ==
  /\ run = 2
  /\ pc = "done"
  /\ N >= 3
  /\ Len(stream) >= 3
  /\ argpartition # {}
  /\ result_df = first_run.result_df

\* C4: k = min(4, n); every cluster_id is in 0..k-1; and a non-empty table
\* with the columns model() reads is segmented, however small.
C4_ClusterCount ==
  /\ pc \in {"init", "lloyd", "predict", "transform", "result", "done"}
       => n_clusters = (IF N < 4 THEN N ELSE 4)
  /\ Segmented =>
       /\ Len(centers) = n_clusters
       /\ \A i \in 1..N : Rows[i].cluster_id \in 0..(n_clusters - 1)
  /\ N > 0 /\ Required \subseteq customers_df.columns => pc # "raised"
C4_Witness ==
  /\ pc = "done"
  /\ N = 2
  /\ n_clusters = 2
  /\ \A i \in 1..N : Rows[i].cluster_id \in 0..1

\* C5: for a zero-row table nothing is scaled or clustered, and the returned
\* zero-row frame has the four columns of the frame of a non-empty table.
C5_EmptySchema ==
  pc = "done" /\ N = 0 =>
    /\ Rows = <<>>
    /\ scaled_features = <<>>
    /\ centers = <<>>
    /\ result_df.columns = ResultColumns

\* C6: the score of a customer is 1 / (1 + d) with d the distance to the
\* centroid of its assigned cluster (segment_score holds d squared); d is
\* never negative, so the score is in (0, 1], and it is 1 exactly when the
\* customer lies on that centroid.
C6_ScoreOfAssignedCentroid ==
  Segmented =>
    \A i \in 1..N :
      LET assigned == centers[Rows[i].cluster_id + 1]
          d2 == Rows[i].segment_score
      IN /\ DistEq(d2, Dist2(i, assigned))
         /\ d2.x2 >= 0 /\ d2.y2 >= 0
         /\ IsZero(d2) <=> AsCenter(i) = assigned
C6_Witness ==
  /\ Segmented
  /\ \E i \in 1..N : ~IsZero(Rows[i].segment_score)
  /\ \E i \in 1..N : IsZero(Rows[i].segment_score)

\* C7: model() fails, returning nothing, exactly when a required column is
\* absent under every letter case.
C7_SchemaError ==
  Ended =>
    IF \E x \in Required : ~Present(x)
    THEN raised # "" /\ ~result_df.returned
    ELSE raised = "" /\ result_df.returned

\* C8: one customer gives k = 1, one row, cluster_id 0, Low Value, and a
\* score of exactly 1 (distance 0).
C8_SingleCustomer ==
  /\ N = 1 /\ Required \subseteq customers_df.columns => pc # "raised"
  /\ pc = "done" /\ N = 1 =>
       /\ n_clusters = 1
       /\ Len(Rows) = 1
       /\ Rows[1].cluster_id = 0
       /\ Rows[1].segment = "Low Value"
       /\ IsZero(Rows[1].segment_score)
C8_Witness ==
  /\ pc = "done"
  /\ N = 1
  /\ customers_df.rows[1].count_lifetime_orders = NaN
  /\ Rows[1].segment = "Low Value"

\* C9: the scenario's first two customers share a cluster, its last two share
\* another, and the latter's label is of higher value than the former's.
C9_Scenario ==
  pc = "done" /\ features = ScenarioFeatures =>
    /\ segments[1] = segments[2]
    /\ segments[3] = segments[4]
    /\ segments[1] # segments[3]
    /\ LabelRank(Rows[3].segment) > LabelRank(Rows[1].segment)

\* C10: no final centroid is nearer to a customer than the centroid of its
\* reported cluster, also when the loop stopped at the iteration cap.
C10_ReportedClusterIsNearest ==
  Segmented =>
    \A i \in 1..N : \A c \in 1..n_clusters :
      ~DistLess(Dist2(i, centers[c]), Dist2(i, centers[Rows[i].cluster_id + 1]))
C10_Witness ==
  /\ Segmented
  /\ stopped = "cap"
  /\ segments # labels

====
